---- MODULE Spec2Model ----
(***************************************************************************)
(* A model of setup.py of gh-repos-batch-clone: the module-level script    *)
(* that reads README.md as the long description (falling back to a fixed   *)
(* literal when the file does not exist) and then calls setuptools.setup() *)
(* with the package metadata.                                              *)
(*                                                                         *)
(* A Python str is modelled as the sequence of its Unicode code points, a  *)
(* bytes object as the sequence of its byte values (0..255).               *)
(***************************************************************************)
EXTENDS Integers, Sequences, FiniteSets

VARIABLES
    readme,            \* the environment: what "README.md" names in the cwd
    pc,                \* position of the script
    fh,                \* state of the file object bound by the with statement
    opens,             \* number of times open("README.md", ...) was called
    exc,               \* the exception currently propagating ("none" if none)
    handled,           \* the exception the except clause caught ("none" if none)
    long_description,  \* the module global: [bound, value]
    setup_calls        \* the keyword arguments of each setup() call so far

vars == <<readme, pc, fh, opens, exc, handled, long_description, setup_calls>>

---------------------------------------------------------------------------
(* Bounds of the explored environments.                                    *)

\* Longest README.md content explored, in bytes.
MaxLen == 3

\* The byte values file contents are drawn from: "\n", "\r", "A", the
\* two-byte lead 0xC3, the continuation bytes 0xA9 and 0xB8, the three-byte
\* lead 0xE4, and 0xFF, which no UTF-8 text contains.
ByteAlphabet == {10, 13, 65, 169, 184, 195, 228, 255}

RECURSIVE BytesUpTo(_)
BytesUpTo(n) ==
    IF n = 0 THEN {<<>>}
    ELSE LET shorter == BytesUpTo(n - 1)
         IN  shorter \cup {Append(bs, b) : bs \in shorter, b \in ByteAlphabet}

\* What the path "README.md" can be when the script starts.
Environments ==
    {[kind |-> "file", bytes |-> bs] : bs \in BytesUpTo(MaxLen)}
        \cup {[kind |-> k, bytes |-> <<>>] : k \in {"absent", "dir", "noperm"}}

---------------------------------------------------------------------------
(* open("README.md", "r", encoding="utf-8") and fh.read(): strict UTF-8    *)
(* decoding followed by universal-newline translation (newline=None).      *)

LF == 10
CR == 13

IsCont(b) == b >= 128 /\ b <= 191

\* Length of the well-formed UTF-8 sequence starting at bs[i], 0 if none
\* (invalid lead byte, bad or missing continuation, overlong form, surrogate,
\* or a code point above U+10FFFF).
UTF8SeqLen(bs, i) ==
    LET b == bs[i]
        n == Len(bs)
    IN  IF b <= 127 THEN 1
        ELSE IF b >= 194 /\ b <= 223
        THEN IF i + 1 <= n /\ IsCont(bs[i + 1]) THEN 2 ELSE 0
        ELSE IF b >= 224 /\ b <= 239
        THEN IF /\ i + 2 <= n
                /\ IsCont(bs[i + 1])
                /\ (b = 224 => bs[i + 1] >= 160)
                /\ (b = 237 => bs[i + 1] <= 159)
                /\ IsCont(bs[i + 2])
             THEN 3 ELSE 0
        ELSE IF b >= 240 /\ b <= 244
        THEN IF /\ i + 3 <= n
                /\ IsCont(bs[i + 1])
                /\ (b = 240 => bs[i + 1] >= 144)
                /\ (b = 244 => bs[i + 1] <= 143)
                /\ IsCont(bs[i + 2])
                /\ IsCont(bs[i + 3])
             THEN 4 ELSE 0
        ELSE 0

\* The code point encoded by the n-byte sequence at bs[i].
UTF8CodePoint(bs, i, n) ==
    IF n = 1 THEN bs[i]
    ELSE IF n = 2 THEN (bs[i] - 192) * 64 + (bs[i + 1] - 128)
    ELSE IF n = 3
    THEN (bs[i] - 224) * 4096 + (bs[i + 1] - 128) * 64 + (bs[i + 2] - 128)
    ELSE (bs[i] - 240) * 262144 + (bs[i + 1] - 128) * 4096
             + (bs[i + 2] - 128) * 64 + (bs[i + 3] - 128)

RECURSIVE UTF8DecodeFrom(_, _)
UTF8DecodeFrom(bs, i) ==
    IF i > Len(bs) THEN [ok |-> TRUE, text |-> <<>>]
    ELSE LET n == UTF8SeqLen(bs, i)
         IN  IF n = 0 THEN [ok |-> FALSE, text |-> <<>>]
             ELSE LET rest == UTF8DecodeFrom(bs, i + n)
                  IN  IF rest.ok
                      THEN [ok |-> TRUE,
                            text |-> <<UTF8CodePoint(bs, i, n)>> \o rest.text]
                      ELSE rest

\* bytes.decode("utf-8", "strict"): ok is FALSE where Python raises
\* UnicodeDecodeError.
UTF8Decode(bs) == UTF8DecodeFrom(bs, 1)

\* Text-mode reading with newline=None: "\r\n" and a lone "\r" become "\n".
RECURSIVE TranslateNewlines(_)
TranslateNewlines(s) ==
    IF s = <<>> THEN <<>>
    ELSE IF Head(s) = CR
    THEN <<LF>> \o TranslateNewlines(
                      IF Len(s) >= 2 /\ s[2] = LF THEN Tail(Tail(s)) ELSE Tail(s))
    ELSE <<Head(s)>> \o TranslateNewlines(Tail(s))

\* Variant of FhRead: fh.readline() in place of fh.read(), the text up to and
\* including the first line end.
RECURSIVE FirstLine(_)
FirstLine(s) ==
    IF s = <<>> THEN <<>>
    ELSE IF Head(s) = LF THEN <<LF>>
    ELSE <<Head(s)>> \o FirstLine(Tail(s))

FhReadline(bs) == FirstLine(TranslateNewlines(UTF8Decode(bs).text))

\* Variant of FhRead: `fh.read() or "GitHub ..."`, an empty text replaced by
\* the fallback literal.
FhReadOrFallback(bs) ==
    LET r == TranslateNewlines(UTF8Decode(bs).text)
    IN  IF r = <<>>
        THEN <<71, 105, 116, 72, 117, 98, 32, 20179, 24211, 25209, 37327, 20998,
               31867, 20811, 38534, 33050, 26412>>
        ELSE r

\* The str fh.read() returns for a file holding bs (bs valid UTF-8).
FhRead(bs) == TranslateNewlines(UTF8Decode(bs).text)

\* The exception open() raises for a path that is not a readable file.
OpenError(kind) ==
    IF kind = "absent" THEN "FileNotFoundError"
    ELSE IF kind = "dir" THEN "IsADirectoryError"
    ELSE "PermissionError"

\* The classes an exception is an instance of (Python's built-in hierarchy).
ExcClasses(e) ==
    IF e = "FileNotFoundError"
    THEN {"FileNotFoundError", "OSError", "Exception", "BaseException"}
    ELSE IF e = "IsADirectoryError"
    THEN {"IsADirectoryError", "OSError", "Exception", "BaseException"}
    ELSE IF e = "PermissionError"
    THEN {"PermissionError", "OSError", "Exception", "BaseException"}
    ELSE IF e = "UnicodeDecodeError"
    THEN {"UnicodeDecodeError", "UnicodeError", "ValueError", "Exception",
          "BaseException"}
    ELSE IF e = "NameError"
    THEN {"NameError", "Exception", "BaseException"}
    ELSE {}

---------------------------------------------------------------------------
(* The literals of setup.py.                                               *)

\* Variant of Fallback: the literal left empty.
FallbackEmpty == <<>>

\* "GitHub 仓库批量分类克隆脚本"
Fallback ==
    <<71, 105, 116, 72, 117, 98, 32, 20179, 24211, 25209, 37327, 20998,
      31867, 20811, 38534, 33050, 26412>>

\* Variant of ExceptClause: `except OSError`.
ExceptClauseOSError == "OSError"

\* The class named by the except clause.
ExceptClause == "FileNotFoundError"

\* "GitHub 仓库批量分类克隆脚本"
description ==
    <<71, 105, 116, 72, 117, 98, 32, 20179, 24211, 25209, 37327, 20998,
      31867, 20811, 38534, 33050, 26412>>

\* Variant of py_modules: ["repos"], the command's name in place of the module's.
py_modules_repos == << <<114, 101, 112, 111, 115>> >>

\* ["main"]
py_modules == << <<109, 97, 105, 110>> >>

\* Variant of python_requires: ">=3.8".
python_requires_38 == <<62, 61, 51, 46, 56>>

\* ">=3.7"
python_requires == <<62, 61, 51, 46, 55>>

\* ["repos=main:main"]
console_scripts ==
    << <<114, 101, 112, 111, 115, 61, 109, 97, 105, 110, 58, 109, 97, 105, 110>> >>

\* "Programming Language :: Python :: "
PyPrefix ==
    <<80, 114, 111, 103, 114, 97, 109, 109, 105, 110, 103, 32, 76, 97, 110,
      103, 117, 97, 103, 101, 32, 58, 58, 32, 80, 121, 116, 104, 111, 110,
      32, 58, 58, 32>>

classifiers ==
    << \* "Development Status :: 4 - Beta"
       <<68, 101, 118, 101, 108, 111, 112, 109, 101, 110, 116, 32, 83, 116,
         97, 116, 117, 115, 32, 58, 58, 32, 52, 32, 45, 32, 66, 101, 116, 97>>,
       \* "Intended Audience :: Developers"
       <<73, 110, 116, 101, 110, 100, 101, 100, 32, 65, 117, 100, 105, 101,
         110, 99, 101, 32, 58, 58, 32, 68, 101, 118, 101, 108, 111, 112, 101,
         114, 115>>,
       \* "Topic :: Software Development :: Version Control :: Git"
       <<84, 111, 112, 105, 99, 32, 58, 58, 32, 83, 111, 102, 116, 119, 97,
         114, 101, 32, 68, 101, 118, 101, 108, 111, 112, 109, 101, 110, 116,
         32, 58, 58, 32, 86, 101, 114, 115, 105, 111, 110, 32, 67, 111, 110,
         116, 114, 111, 108, 32, 58, 58, 32, 71, 105, 116>>,
       \* "Programming Language :: Python :: 3"
       PyPrefix \o <<51>>,
       \* "Programming Language :: Python :: 3.7"
       PyPrefix \o <<51, 46, 55>>,
       \* "Programming Language :: Python :: 3.8"
       PyPrefix \o <<51, 46, 56>>,
       \* "Programming Language :: Python :: 3.9"
       PyPrefix \o <<51, 46, 57>>,
       \* "Programming Language :: Python :: 3.10"
       PyPrefix \o <<51, 46, 49, 48>>,
       \* "Programming Language :: Python :: 3.11"
       PyPrefix \o <<51, 46, 49, 49>>,
       \* "Programming Language :: Python :: 3.12"
       PyPrefix \o <<51, 46, 49, 50>> >>

\* The keyword arguments of the setup() call, given the value the name
\* long_description evaluates to.
SetupKwargs(ld) ==
    [description      |-> description,
     long_description |-> ld,
     py_modules       |-> py_modules,
     python_requires  |-> python_requires,
     console_scripts  |-> console_scripts,
     classifiers      |-> classifiers]

---------------------------------------------------------------------------
(* The script.                                                             *)

Init ==
    /\ readme \in Environments
    /\ pc = "try"
    /\ fh = "none"
    /\ opens = 0
    /\ exc = "none"
    /\ handled = "none"
    /\ long_description = [bound |-> FALSE, value |-> <<>>]
    /\ setup_calls = <<>>

\* open("README.md", ...) succeeds and the with block is entered.
OpenOk ==
    /\ pc = "try"
    /\ readme.kind = "file"
    /\ opens' = opens + 1
    /\ fh' = "open"
    /\ pc' = "read"
    /\ UNCHANGED <<readme, exc, handled, long_description, setup_calls>>

\* open("README.md", ...) raises: control goes to the except clause.
OpenFail ==
    /\ pc = "try"
    /\ readme.kind # "file"
    /\ opens' = opens + 1
    /\ exc' = OpenError(readme.kind)
    /\ pc' = "except"
    /\ UNCHANGED <<readme, fh, handled, long_description, setup_calls>>

\* long_description = fh.read(), the content being valid UTF-8.
ReadOk ==
    /\ pc = "read"
    /\ UTF8Decode(readme.bytes).ok
    /\ long_description' = [bound |-> TRUE, value |-> FhRead(readme.bytes)]
    /\ pc' = "exit"
    /\ UNCHANGED <<readme, fh, opens, exc, handled, setup_calls>>

\* fh.read() raises UnicodeDecodeError; nothing is assigned.
ReadFail ==
    /\ pc = "read"
    /\ ~UTF8Decode(readme.bytes).ok
    /\ exc' = "UnicodeDecodeError"
    /\ pc' = "exit"
    /\ UNCHANGED <<readme, fh, opens, handled, long_description, setup_calls>>

\* Variant of WithExit: the file opened without a with statement, never closed.
WithExitLeak ==
    /\ pc = "exit"
    /\ fh' = fh
    /\ pc' = IF exc = "none" THEN "setup" ELSE "except"
    /\ UNCHANGED <<readme, opens, exc, handled, long_description, setup_calls>>

\* Leaving the with block, normally or by an exception, closes the file.
WithExit ==
    /\ pc = "exit"
    /\ fh' = "closed"
    /\ pc' = IF exc = "none" THEN "setup" ELSE "except"
    /\ UNCHANGED <<readme, opens, exc, handled, long_description, setup_calls>>

\* except FileNotFoundError: the propagating exception matches the clause.
ExceptMatch ==
    /\ pc = "except"
    /\ ExceptClause \in ExcClasses(exc)
    /\ handled' = exc
    /\ exc' = "none"
    /\ pc' = "handler"
    /\ UNCHANGED <<readme, fh, opens, long_description, setup_calls>>

\* The exception matches no clause: it propagates and the script aborts.
ExceptNoMatch ==
    /\ pc = "except"
    /\ ExceptClause \notin ExcClasses(exc)
    /\ pc' = "raised"
    /\ UNCHANGED <<readme, fh, opens, exc, handled, long_description, setup_calls>>

\* Variant of Handler: an except body of `pass`, assigning nothing.
HandlerPass ==
    /\ pc = "handler"
    /\ pc' = "setup"
    /\ UNCHANGED <<readme, fh, opens, exc, handled, long_description, setup_calls>>

\* The body of the except clause.
Handler ==
    /\ pc = "handler"
    /\ long_description' = [bound |-> TRUE, value |-> Fallback]
    /\ pc' = "setup"
    /\ UNCHANGED <<readme, fh, opens, exc, handled, setup_calls>>

\* setup(...): evaluating the argument long_description raises NameError if
\* the name is unbound; otherwise setup is called with the keyword arguments.
Setup ==
    /\ pc = "setup"
    /\ IF long_description.bound
       THEN /\ setup_calls' = Append(setup_calls, SetupKwargs(long_description.value))
            /\ pc' = "done"
            /\ exc' = exc
       ELSE /\ setup_calls' = setup_calls
            /\ pc' = "raised"
            /\ exc' = "NameError"
    /\ UNCHANGED <<readme, fh, opens, handled, long_description>>

Next ==
    \/ OpenOk
    \/ OpenFail
    \/ ReadOk
    \/ ReadFail
    \/ WithExit
    \/ ExceptMatch
    \/ ExceptNoMatch
    \/ Handler
    \/ Setup

Spec == Init /\ [][Next]_vars

\* The script is a sequential program: the interpreter runs it on until it
\* ends or an exception aborts it.
FairSpec == Spec /\ WF_vars(Next)

TypeOK ==
    /\ readme \in Environments
    /\ pc \in {"try", "read", "exit", "except", "handler", "setup", "done", "raised"}
    /\ fh \in {"none", "open", "closed"}
    /\ opens \in 0..1
    /\ exc \in {"none", "FileNotFoundError", "IsADirectoryError", "PermissionError",
                "UnicodeDecodeError", "NameError"}
    /\ handled \in {"none", "FileNotFoundError"}
    /\ long_description.bound \in BOOLEAN
    /\ Len(setup_calls) <= 1

---------------------------------------------------------------------------
(* Vocabulary of the properties.                                           *)

\* The content of README.md is well-formed UTF-8.
Readable == readme.kind = "file" /\ UTF8Decode(readme.bytes).ok

\* The content of README.md as text, exactly as stored.
Contents == UTF8Decode(readme.bytes).text

\* s with every "\r\n" pair and every other "\r" replaced by "\n".
NormalizedNewlines(s) ==
    LET marked == [i \in 1..Len(s) |->
                      IF s[i] = 13
                      THEN IF i < Len(s) /\ s[i + 1] = 10 THEN -1 ELSE 10
                      ELSE s[i]]
    IN  SelectSeq(marked, LAMBDA c : c # -1)

\* The literal "GitHub 仓库批量分类克隆脚本", as code points.
FallbackLiteral ==
    <<71, 105, 116, 72, 117, 98, 32, 20179, 24211, 25209, 37327, 20998,
      31867, 20811, 38534, 33050, 26412>>

\* README.md is there but cannot be opened or decoded.
OtherFailure ==
    \/ readme.kind \in {"dir", "noperm"}
    \/ readme.kind = "file" /\ ~UTF8Decode(readme.bytes).ok

\* setup() has been called.
Called == Len(setup_calls) >= 1

Range(s) == {s[i] : i \in 1..Len(s)}

\* Position of the first occurrence of c in s, 0 if there is none.
IndexOf(s, c) ==
    IF c \in Range(s)
    THEN CHOOSE i \in 1..Len(s) : s[i] = c /\ \A j \in 1..(i - 1) : s[j] # c
    ELSE 0

\* A console-script entry "name=module:attr" taken apart.
EntryName(e) == SubSeq(e, 1, IndexOf(e, 61) - 1)
EntryTarget(e) == SubSeq(e, IndexOf(e, 61) + 1, Len(e))
EntryModule(e) == SubSeq(EntryTarget(e), 1, IndexOf(EntryTarget(e), 58) - 1)
EntryAttr(e) ==
    SubSeq(EntryTarget(e), IndexOf(EntryTarget(e), 58) + 1, Len(EntryTarget(e)))

\* The number written by a sequence of decimal digits.
RECURSIVE ParseInt(_)
ParseInt(ds) ==
    IF ds = <<>> THEN 0
    ELSE ParseInt(SubSeq(ds, 1, Len(ds) - 1)) * 10 + (ds[Len(ds)] - 48)

\* A dotted version "3.10" as its release segments <<3, 10>>.
RECURSIVE ParseVersion(_)
ParseVersion(v) ==
    LET dot == IndexOf(v, 46)
    IN  IF dot = 0 THEN <<ParseInt(v)>>
        ELSE <<ParseInt(SubSeq(v, 1, dot - 1))>>
                 \o ParseVersion(SubSeq(v, dot + 1, Len(v)))

\* Release a is at least release b, segment by segment, missing segments 0.
RECURSIVE VersionGE(_, _)
VersionGE(a, b) ==
    IF a = <<>> /\ b = <<>> THEN TRUE
    ELSE LET x == IF a = <<>> THEN 0 ELSE Head(a)
             y == IF b = <<>> THEN 0 ELSE Head(b)
         IN  IF x # y THEN x > y
             ELSE VersionGE(IF a = <<>> THEN a ELSE Tail(a),
                            IF b = <<>> THEN b ELSE Tail(b))

HasPrefix(s, p) == Len(s) >= Len(p) /\ SubSeq(s, 1, Len(p)) = p

\* "Programming Language :: Python :: "
PythonClassifierPrefix ==
    <<80, 114, 111, 103, 114, 97, 109, 109, 105, 110, 103, 32, 76, 97, 110,
      103, 117, 97, 103, 101, 32, 58, 58, 32, 80, 121, 116, 104, 111, 110,
      32, 58, 58, 32>>

\* The Python versions a classifier list names.
ClassifierVersions(cs) ==
    {ParseVersion(SubSeq(c, Len(PythonClassifierPrefix) + 1, Len(c))) :
        c \in {d \in Range(cs) : HasPrefix(d, PythonClassifierPrefix)}}

\* Those that name a minor version.
MinorVersions(cs) == {v \in ClassifierVersions(cs) : Len(v) >= 2}

---------------------------------------------------------------------------
(* Properties.                                                             *)

\* C1 as stated: when README.md exists and is valid UTF-8, the
\* long_description passed to setup() equals the complete contents of the
\* file, for every content, and the fallback is not used.
C1_EqualsCompleteContents ==
    (Readable /\ Called) =>
        /\ setup_calls[1].long_description = Contents
        /\ handled = "none"

\* C1 amended: when README.md exists and is valid UTF-8, the long_description
\* passed to setup() is the file's text with universal-newline translation
\* applied (each "\r\n" and each lone "\r" replaced by "\n"), hence the
\* complete contents whenever the file holds no carriage return; the except
\* branch is not taken.
C1_EqualsNewlineTranslatedContents ==
    (Readable /\ Called) =>
        /\ setup_calls[1].long_description = NormalizedNewlines(Contents)
        /\ (13 \notin Range(Contents) =>
                setup_calls[1].long_description = Contents)
        /\ handled = "none"

C1_Witness ==
    /\ Readable
    /\ Called
    /\ pc = "done"
    /\ 13 \in Range(Contents)
    /\ Len(setup_calls[1].long_description) >= 2

\* C2: when README.md does not exist, open raises FileNotFoundError, the
\* except clause catches it, long_description becomes the fixed literal, and
\* the script goes on to call setup() with it instead of aborting.
C2_AbsentUsesFallback ==
    readme.kind = "absent" =>
        /\ (pc = "except" => exc = "FileNotFoundError")
        /\ (pc \in {"handler", "setup", "done"} => handled = "FileNotFoundError")
        /\ (pc \in {"setup", "done"} =>
                long_description = [bound |-> TRUE, value |-> FallbackLiteral])
        /\ (pc = "done" =>
                /\ Called
                /\ setup_calls[1].long_description = FallbackLiteral)
        /\ pc # "raised"
        /\ (pc # "done" => ENABLED Next)

C2_Witness ==
    /\ readme.kind = "absent"
    /\ pc = "done"
    /\ handled = "FileNotFoundError"
    /\ Called
    /\ setup_calls[1].long_description = FallbackLiteral

\* C3: in every run where README.md is absent or present and readable,
\* setup() is eventually called, it is never called more than once, and it
\* is called only with long_description bound to a string: no run raises
\* NameError at the call.
C3_SetupOnceAfterAssignment ==
    /\ [](((readme.kind = "absent" \/ Readable) /\ pc = "try")
             => <>(pc = "done" /\ Len(setup_calls) = 1))
    /\ [](Len(setup_calls) <= 1)
    /\ [](pc \in {"setup", "done"} => long_description.bound)
    /\ [](exc # "NameError")
    /\ [][Len(setup_calls') > Len(setup_calls) =>
              /\ long_description.bound
              /\ setup_calls'[Len(setup_calls')].long_description
                     = long_description.value]_vars

C3_Witness ==
    /\ readme.kind = "absent" \/ Readable
    /\ pc = "done"
    /\ Len(setup_calls) = 1
    /\ long_description.bound

\* C4: setup() registers exactly one console script, named repos, whose
\* target is the callable main of module main; and the module of every
\* console-script target is listed in py_modules.
C4_ConsoleScriptInstalled ==
    \A k \in 1..Len(setup_calls) :
        LET scripts == setup_calls[k].console_scripts
        IN  /\ Len(scripts) = 1
            /\ EntryName(scripts[1]) = <<114, 101, 112, 111, 115>>
            /\ EntryModule(scripts[1]) = <<109, 97, 105, 110>>
            /\ EntryAttr(scripts[1]) = <<109, 97, 105, 110>>
            /\ \A e \in Range(scripts) :
                   EntryModule(e) \in Range(setup_calls[k].py_modules)

C4_Witness ==
    /\ pc = "done"
    /\ Called
    /\ Len(setup_calls[1].console_scripts) = 1
    /\ EntryModule(setup_calls[1].console_scripts[1])
           \in Range(setup_calls[1].py_modules)

\* C5: README.md is opened at most once in a run, the open is not retried
\* after a failure, and the file object is closed before setup() is called
\* and before an error raised inside the with block reaches the except
\* clause.
C5_SingleShotRead ==
    /\ opens <= 1
    /\ ((exc # "none" \/ handled # "none") => pc # "try")
    /\ (pc \in {"setup", "done"} => fh # "open")
    /\ (Called => fh # "open")
    /\ (pc \in {"except", "handler", "raised"} => fh # "open")
    /\ (fh # "none" => opens = 1)

C5_Witness ==
    /\ pc = "raised"
    /\ exc = "UnicodeDecodeError"
    /\ fh = "closed"
    /\ opens = 1

\* C6: python_requires is ">=3.7", the classifiers name the minor versions
\* 3.7 through 3.12, and each of them is at least the declared minimum.
C6_ClassifiersMeetMinimum ==
    \A k \in 1..Len(setup_calls) :
        LET req == setup_calls[k].python_requires
            minimum == ParseVersion(SubSeq(req, 3, Len(req)))
            minors == MinorVersions(setup_calls[k].classifiers)
        IN  /\ SubSeq(req, 1, 2) = <<62, 61>>
            /\ minimum = <<3, 7>>
            /\ minors = {<<3, m>> : m \in 7..12}
            /\ \A v \in minors : VersionGE(v, minimum)

C6_Witness ==
    /\ Called
    /\ <<3, 10>> \in MinorVersions(setup_calls[1].classifiers)
    /\ VersionGE(<<3, 10>>, ParseVersion(SubSeq(setup_calls[1].python_requires, 3,
                                                Len(setup_calls[1].python_requires))))

\* C7: an existing, empty README.md gives the empty string as
\* long_description; the except branch is not taken and the fallback literal
\* is not substituted.
C7_EmptyFileGivesEmptyString ==
    (readme.kind = "file" /\ readme.bytes = <<>>) =>
        /\ handled = "none"
        /\ pc \notin {"except", "handler", "raised"}
        /\ (pc \in {"exit", "setup", "done"} =>
                long_description = [bound |-> TRUE, value |-> <<>>])
        /\ (pc = "done" =>
                /\ Called
                /\ setup_calls[1].long_description = <<>>
                /\ setup_calls[1].long_description # FallbackLiteral)

C7_Witness ==
    /\ readme.kind = "file"
    /\ readme.bytes = <<>>
    /\ pc = "done"
    /\ Called
    /\ setup_calls[1].long_description = <<>>

\* C8: only FileNotFoundError is handled. When README.md is a directory, is
\* not permitted to be read, or is not valid UTF-8, the error propagates
\* unchanged, long_description is never assigned (no fallback), and setup()
\* is never called.
C8_OtherErrorsPropagate ==
    /\ handled \in {"none", "FileNotFoundError"}
    /\ OtherFailure =>
           /\ handled = "none"
           /\ ~long_description.bound
           /\ ~Called
           /\ pc \notin {"handler", "setup", "done"}
           /\ (pc \in {"except", "raised"} =>
                   exc = IF readme.kind = "file" THEN "UnicodeDecodeError"
                         ELSE IF readme.kind = "dir" THEN "IsADirectoryError"
                         ELSE "PermissionError")
           /\ (pc # "raised" => ENABLED Next)

C8_Witness ==
    /\ OtherFailure
    /\ readme.kind = "dir"
    /\ pc = "raised"
    /\ exc = "IsADirectoryError"
    /\ ~Called

====
